---------------------------- MODULE Spec2Model ----------------------------
(***************************************************************************)
(* Model of scripts/document-generator/run_ppt_script.py (the sandboxed    *)
(* runner of python-pptx scripts) and of the external-tool pipeline of     *)
(* scripts/document-generator/extract_ppt_images.py.                       *)
(*                                                                         *)
(* One invocation of run_ppt_script is one process p.  Its inputs are      *)
(* sys.argv, the bytes on standard input and the behaviour the script      *)
(* source has when Python executes it (program).  The file system (dirs,   *)
(* files) is shared by all invocations; everything else is per process.    *)
(*                                                                         *)
(* Text is a sequence of one-character strings.  REST is one pseudo        *)
(* character that stands for the remaining (non-blank) source of a script. *)
(* System calls are taken to succeed unless the code has a branch for      *)
(* their failure.                                                          *)
(***************************************************************************)
EXTENDS Integers, Sequences, FiniteSets, TLC

VARIABLES
  pc,            \* position of each invocation in main()
  argv,          \* sys.argv[1:] of each invocation
  stdin,         \* bytes on standard input
  program,       \* what the script does when executed
  cwd,           \* process working directory
  environ,       \* os.environ['PPTX_OUTPUT_PATH'] (NoPath when unset)
  output_path,   \* local output_path
  script_code,   \* local script_code
  tmp_cwd,       \* local tmp_cwd
  original_cwd,  \* local original_cwd
  ip,            \* number of script operations already executed
  raised,        \* exception in flight when the finally block is entered
  stdout,        \* result lines written to standard output
  exit_code,     \* process exit status, Running while the process lives
  trace,         \* history of the steps main() has taken
  dirs,          \* directories that exist
  files,         \* files that exist (absolute paths)
  files0,        \* the files that existed before any invocation started
  xpc, xin, xtmp, xdirs, xpdfs, xslides, xi, xout, xraised, xexit
                 \* extract_ppt_images: see the second part of the module

rvars == <<pc, argv, stdin, program, cwd, environ, output_path, script_code,
           tmp_cwd, original_cwd, ip, raised, stdout, exit_code, trace,
           dirs, files, files0>>
xvars == <<xpc, xin, xtmp, xdirs, xpdfs, xslides, xi, xout, xraised, xexit>>
vars == <<rvars, xvars>>

-----------------------------------------------------------------------------
(* Bounds *)

\* longest run of leading whitespace of a script text
MaxWs == 1
\* most file-system operations a script performs
MaxOps == 2
\* size of the pool of names tempfile.mkdtemp draws from
NTmp == 2
\* most pages the rasterizer returns
MaxSlides == 2

-----------------------------------------------------------------------------
(* Text *)

REST == "REST"
BadByte == "0xFF"
WsChars == {" ", "\n"}

IsSpace(c) == c \in {" ", "\t", "\n", "\r", "\f"}

RECURSIVE lstrip(_)
lstrip(s) ==
  IF s = <<>> THEN <<>>
  ELSE IF IsSpace(Head(s)) THEN lstrip(Tail(s)) ELSE s

RECURSIVE rstrip(_)
rstrip(s) ==
  IF s = <<>> THEN <<>>
  ELSE IF IsSpace(s[Len(s)]) THEN rstrip(SubSeq(s, 1, Len(s) - 1)) ELSE s

strip(s) == rstrip(lstrip(s))

startswith(s, m) == Len(s) >= Len(m) /\ SubSeq(s, 1, Len(m)) = m

js_markers ==
  << <<"c","o","n","s","t"," ">>,
     <<"v","a","r"," ">>,
     <<"l","e","t"," ">>,
     <<"f","u","n","c","t","i","o","n"," ">>,
     <<"r","e","q","u","i","r","e","(">>,
     <<"/","/">>,
     <<"/","*">>,
     <<"=",">">>,
     <<"m","o","d","u","l","e",".","e","x","p","o","r","t","s">> >>

\* bytes.decode('utf-8'): raises on a byte that is not UTF-8
Decodable(bytes) == \A i \in 1..Len(bytes) : bytes[i] # BadByte

-----------------------------------------------------------------------------
(* Paths and the file system *)

Home == <<"home", 0>>
Work == <<"work", 0>>
Dot == <<".", 0>>
NoDir == <<"", 0>>
TmpDir(n) == <<"dome_ppt_sandbox_", n>>
TmpNames == 1..NTmp

Path(d, n) == [dir |-> d, name |-> n]
NoPath == Path(NoDir, "")

\* How the operating system resolves a path against a working directory
Resolve(path, wd) == IF path.dir = Dot THEN Path(wd, path.name) ELSE path

\* abspath as it would be if the argument were used as given
abspath_AsGiven(path, wd) == path

\* os.path.abspath
abspath(path, wd) == Resolve(path, wd)

exists(path, wd, fs) == Resolve(path, wd) \in fs

\* shutil.rmtree(d, ignore_errors=True) on the set of files
rmtree_files(d, fs) == {f \in fs : f.dir # d}


-----------------------------------------------------------------------------
(* Inputs of one invocation *)

WsSeqs == UNION {[1..n -> WsChars] : n \in 0..MaxWs}

MarkerHeads == {js_markers[i] \o <<REST>> : i \in DOMAIN js_markers}

\* sources that begin like Python: anything, "var..." without a blank, "/x"
PlainHeads == {<<REST>>, <<"v","a","r",REST>>, <<"/",REST>>}

Texts == WsSeqs \cup {w \o h : w \in WsSeqs, h \in MarkerHeads \cup PlainHeads}

Stdins == Texts \cup {<<BadByte>>}

OpSeqs == UNION {[1..n -> {"save", "chdir"}] : n \in 0..MaxOps}

Ends == {"return", "exit0", "exit1", "raise", "interrupt"}

SyntaxErrorProgram == [ops |-> <<>>, end |-> "syntax"]

Programs == [ops : OpSeqs, end : Ends] \cup {SyntaxErrorProgram}

\* A source that begins with an identifier and a blank ("var =1 ...") can be
\* valid Python; one that begins with "//", "/*" or "=>" cannot be compiled;
\* one that begins with require( or module.exports compiles and then fails on
\* the unbound name.
IdentifierMarkers == {js_markers[i] : i \in 1..4}
UnboundNameMarkers == {js_markers[5], js_markers[9]}

Denotes(bytes) ==
  LET s == lstrip(bytes) IN
  IF s = <<>> \/ ~Decodable(bytes) THEN {[ops |-> <<>>, end |-> "return"]}
  ELSE IF \E m \in IdentifierMarkers : startswith(s, m)
       THEN {SyntaxErrorProgram, [ops |-> <<"save">>, end |-> "return"]}
  ELSE IF \E m \in UnboundNameMarkers : startswith(s, m)
       THEN {SyntaxErrorProgram, [ops |-> <<>>, end |-> "raise"]}
  ELSE IF \E i \in DOMAIN js_markers : startswith(s, js_markers[i])
       THEN {SyntaxErrorProgram}
  ELSE Programs

OutName == "out.pptx"
Argvs == {<<>>, <<Path(Dot, OutName)>>, <<Path(Work, OutName)>>}

Inputs ==
  {[argv |-> a, stdin |-> b, program |-> g] :
     a \in Argvs, b \in Stdins, g \in Programs}

ValidInput(i) == i.program \in Denotes(i.stdin)

\* the output files a previous run may have left behind
StaleSets == SUBSET {Path(Home, OutName), Path(Work, OutName)}

-----------------------------------------------------------------------------
(* Result records and bookkeeping *)

Running == -1
Ok == [success |-> TRUE]
Failure(kind) == [success |-> FALSE, error |-> kind]

Procs == DOMAIN pc

Emit(p, rec) == stdout' = [stdout EXCEPT ![p] = Append(@, rec)]
Log(p, evs) == trace' = [trace EXCEPT ![p] = @ \o evs]

\* print(json.dumps({"success": False, ...})); sys.exit(1), outside the try
Die(p, kind) ==
  /\ Emit(p, Failure(kind))
  /\ Log(p, <<"print", "exit">>)
  /\ exit_code' = [exit_code EXCEPT ![p] = 1]
  /\ pc' = [pc EXCEPT ![p] = "done"]

-----------------------------------------------------------------------------
(* run_ppt_script.main *)

\* lines 20-27
Start(p) ==
  /\ pc[p] = "start"
  /\ IF Len(argv[p]) < 1
     THEN /\ Die(p, "MissingArgument")
          /\ UNCHANGED <<output_path, environ>>
     ELSE /\ output_path' = [output_path EXCEPT ![p] = abspath(argv[p][1], cwd[p])]
          /\ environ' = [environ EXCEPT ![p] = output_path'[p]]
          /\ pc' = [pc EXCEPT ![p] = "read"]
          /\ UNCHANGED <<stdout, exit_code, trace>>
  /\ UNCHANGED <<argv, stdin, program, cwd, script_code, tmp_cwd, original_cwd,
                 ip, raised, dirs, files, files0, xvars>>

\* lines 30-38
ReadScript(p) ==
  /\ pc[p] = "read"
  /\ IF ~Decodable(stdin[p])
     THEN /\ Die(p, "StdinReadFailed")
          /\ UNCHANGED script_code
     ELSE /\ script_code' = [script_code EXCEPT ![p] = stdin[p]]
          /\ IF strip(script_code'[p]) = <<>>
             THEN Die(p, "EmptyInput")
             ELSE /\ pc' = [pc EXCEPT ![p] = "detect"]
                  /\ UNCHANGED <<stdout, exit_code, trace>>
  /\ UNCHANGED <<argv, stdin, program, cwd, environ, output_path, tmp_cwd,
                 original_cwd, ip, raised, dirs, files, files0, xvars>>

\* DetectJs as it would be with the markers looked for in script_code itself
\* rather than in its left-trimmed text
DetectJs_Unstripped(p) ==
  /\ pc[p] = "detect"
  /\ IF \E i \in DOMAIN js_markers : startswith(script_code[p], js_markers[i])
     THEN Die(p, "WrongLanguage")
     ELSE /\ pc' = [pc EXCEPT ![p] = "sandbox"]
          /\ UNCHANGED <<stdout, exit_code, trace>>
  /\ UNCHANGED <<argv, stdin, program, cwd, environ, output_path, script_code,
                 tmp_cwd, original_cwd, ip, raised, dirs, files, files0, xvars>>

\* lines 41-57
DetectJs(p) ==
  /\ pc[p] = "detect"
  /\ LET stripped == lstrip(script_code[p]) IN
     IF \E i \in DOMAIN js_markers : startswith(stripped, js_markers[i])
     THEN Die(p, "WrongLanguage")
     ELSE /\ pc' = [pc EXCEPT ![p] = "sandbox"]
          /\ UNCHANGED <<stdout, exit_code, trace>>
  /\ UNCHANGED <<argv, stdin, program, cwd, environ, output_path, script_code,
                 tmp_cwd, original_cwd, ip, raised, dirs, files, files0, xvars>>

\* mkdtemp as it would be with a fixed directory name, created if missing
mkdtemp_FixedName(n) == n = 1

\* tempfile.mkdtemp: a directory that did not exist is created
mkdtemp(n) == TmpDir(n) \notin dirs

\* lines 60-63
EnterSandbox(p) ==
  /\ pc[p] = "sandbox"
  /\ \E n \in TmpNames :
       /\ mkdtemp(n)
       /\ dirs' = dirs \cup {TmpDir(n)}
       /\ tmp_cwd' = [tmp_cwd EXCEPT ![p] = TmpDir(n)]
  /\ original_cwd' = [original_cwd EXCEPT ![p] = cwd[p]]
  /\ cwd' = [cwd EXCEPT ![p] = tmp_cwd'[p]]
  /\ Log(p, <<"mkdtemp", "chdir">>)
  /\ pc' = [pc EXCEPT ![p] = "compile"]
  /\ UNCHANGED <<argv, stdin, program, environ, output_path, script_code, ip,
                 raised, stdout, exit_code, files, files0, xvars>>

\* The except Exception handler, lines 77-80: the result line is written and
\* sys.exit(1) raises SystemExit inside the try, so the finally block follows
ReportRuntimeFailure(p) ==
  /\ Emit(p, Failure("RuntimeFailure"))
  /\ raised' = [raised EXCEPT ![p] = "SystemExit"]
  /\ pc' = [pc EXCEPT ![p] = "finally"]

\* line 73; SyntaxError is an Exception
Compile(p) ==
  /\ pc[p] = "compile"
  /\ IF program[p].end = "syntax"
     THEN /\ ReportRuntimeFailure(p)
          /\ Log(p, <<"compile", "print">>)
     ELSE /\ pc' = [pc EXCEPT ![p] = "exec"]
          /\ Log(p, <<"compile">>)
          /\ UNCHANGED <<stdout, raised>>
  /\ UNCHANGED <<argv, stdin, program, cwd, environ, output_path, script_code,
                 tmp_cwd, original_cwd, ip, exit_code, dirs, files, files0, xvars>>

\* line 74, one operation of the running script: it saves the presentation
\* to os.environ['PPTX_OUTPUT_PATH'], or changes the working directory
ScriptStep(p) ==
  /\ pc[p] = "exec"
  /\ ip[p] < Len(program[p].ops)
  /\ LET op == program[p].ops[ip[p] + 1] IN
     IF op = "save"
     THEN /\ files' = files \cup {Resolve(environ[p], cwd[p])}
          /\ UNCHANGED cwd
     ELSE /\ cwd' = [cwd EXCEPT ![p] = Work]
          /\ UNCHANGED files
  /\ ip' = [ip EXCEPT ![p] = @ + 1]
  /\ UNCHANGED <<pc, argv, stdin, program, environ, output_path, script_code,
                 tmp_cwd, original_cwd, raised, stdout, exit_code, trace, dirs,
                 files0, xvars>>

\* ScriptEnd as it would be with the artifact check inside the try block: a
\* missing artifact is reported before the finally block runs
ScriptEnd_VerifiesInTry(p) ==
  /\ pc[p] = "exec"
  /\ ip[p] = Len(program[p].ops)
  /\ CASE program[p].end \in {"return", "exit0", "exit1"} ->
            IF ~exists(output_path[p], cwd[p], files)
            THEN /\ Emit(p, Failure("NoArtifactProduced"))
                 /\ raised' = [raised EXCEPT ![p] = "SystemExit"]
                 /\ pc' = [pc EXCEPT ![p] = "finally"]
                 /\ Log(p, <<"exec", "exists", "print">>)
            ELSE /\ pc' = [pc EXCEPT ![p] = "finally"]
                 /\ Log(p, <<"exec">>)
                 /\ UNCHANGED <<stdout, raised>>
       [] program[p].end = "raise" ->
            /\ ReportRuntimeFailure(p)
            /\ Log(p, <<"exec", "print">>)
       [] program[p].end = "interrupt" ->
            /\ raised' = [raised EXCEPT ![p] = "KeyboardInterrupt"]
            /\ pc' = [pc EXCEPT ![p] = "finally"]
            /\ Log(p, <<"exec">>)
            /\ UNCHANGED stdout
  /\ UNCHANGED <<argv, stdin, program, cwd, environ, output_path, script_code,
                 tmp_cwd, original_cwd, ip, exit_code, dirs, files, files0, xvars>>

\* line 74 returns or raises; the handlers of lines 75-80
ScriptEnd(p) ==
  /\ pc[p] = "exec"
  /\ ip[p] = Len(program[p].ops)
  /\ CASE program[p].end = "return" ->
            /\ pc' = [pc EXCEPT ![p] = "finally"]
            /\ Log(p, <<"exec">>)
            /\ UNCHANGED <<stdout, raised>>
       [] program[p].end \in {"exit0", "exit1"} ->     \* except SystemExit: pass
            /\ pc' = [pc EXCEPT ![p] = "finally"]
            /\ Log(p, <<"exec">>)
            /\ UNCHANGED <<stdout, raised>>
       [] program[p].end = "raise" ->                  \* except Exception
            /\ ReportRuntimeFailure(p)
            /\ Log(p, <<"exec", "print">>)
       [] program[p].end = "interrupt" ->              \* not caught
            /\ raised' = [raised EXCEPT ![p] = "KeyboardInterrupt"]
            /\ pc' = [pc EXCEPT ![p] = "finally"]
            /\ Log(p, <<"exec">>)
            /\ UNCHANGED stdout
  /\ UNCHANGED <<argv, stdin, program, cwd, environ, output_path, script_code,
                 tmp_cwd, original_cwd, ip, exit_code, dirs, files, files0, xvars>>

\* The status the interpreter exits with when the exception leaves main():
\* sys.exit(1) gives 1; an uncaught error gives 1, or on POSIX 130 when it is
\* a KeyboardInterrupt
ExitStatus(exc) == IF exc = "SystemExit" THEN {1} ELSE {1, 130}

\* Finally as it would be with a return inside the finally block: the
\* SystemExit in flight is lost
Finally_SwallowsExit(p) ==
  /\ pc[p] = "finally"
  /\ cwd' = [cwd EXCEPT ![p] = original_cwd[p]]
  /\ dirs' = dirs \ {tmp_cwd[p]}
  /\ files' = rmtree_files(tmp_cwd[p], files)
  /\ pc' = [pc EXCEPT ![p] = "done"]
  /\ Log(p, <<"restore", "rmtree", "exit">>)
  /\ exit_code' = [exit_code EXCEPT ![p] = 0]
  /\ UNCHANGED <<argv, stdin, program, environ, output_path, script_code,
                 tmp_cwd, original_cwd, ip, raised, stdout, files0, xvars>>

\* Finally as it would be with the cleanup placed after the try statement
\* instead of in a finally block: an exception in flight skips it
Finally_SkipsOnError(p) ==
  /\ pc[p] = "finally"
  /\ IF raised[p] = "none"
     THEN /\ cwd' = [cwd EXCEPT ![p] = original_cwd[p]]
          /\ dirs' = dirs \ {tmp_cwd[p]}
          /\ files' = rmtree_files(tmp_cwd[p], files)
          /\ pc' = [pc EXCEPT ![p] = "verify"]
          /\ Log(p, <<"restore", "rmtree">>)
          /\ UNCHANGED exit_code
     ELSE /\ pc' = [pc EXCEPT ![p] = "done"]
          /\ Log(p, <<"exit">>)
          /\ \E st \in ExitStatus(raised[p]) :
               exit_code' = [exit_code EXCEPT ![p] = st]
          /\ UNCHANGED <<cwd, dirs, files>>
  /\ UNCHANGED <<argv, stdin, program, environ, output_path, script_code,
                 tmp_cwd, original_cwd, ip, raised, stdout, files0, xvars>>

\* lines 82-84, then the exception in flight (if any) leaves main()
Finally(p) ==
  /\ pc[p] = "finally"
  /\ cwd' = [cwd EXCEPT ![p] = original_cwd[p]]
  /\ dirs' = dirs \ {tmp_cwd[p]}
  /\ files' = rmtree_files(tmp_cwd[p], files)
  /\ IF raised[p] = "none"
     THEN /\ pc' = [pc EXCEPT ![p] = "verify"]
          /\ Log(p, <<"restore", "rmtree">>)
          /\ UNCHANGED exit_code
     ELSE /\ pc' = [pc EXCEPT ![p] = "done"]
          /\ Log(p, <<"restore", "rmtree", "exit">>)
          /\ \E st \in ExitStatus(raised[p]) :
               exit_code' = [exit_code EXCEPT ![p] = st]
  /\ UNCHANGED <<argv, stdin, program, environ, output_path, script_code,
                 tmp_cwd, original_cwd, ip, raised, stdout, files0, xvars>>

\* Verify as it would be without the sys.exit(1) of line 96: the success
\* line follows the failure line
Verify_FallsThrough(p) ==
  /\ pc[p] = "verify"
  /\ IF ~exists(output_path[p], cwd[p], files)
     THEN /\ stdout' = [stdout EXCEPT ![p] =
                          @ \o <<Failure("NoArtifactProduced"), Ok>>]
          /\ Log(p, <<"exists", "print", "print", "exit">>)
     ELSE /\ Emit(p, Ok)
          /\ Log(p, <<"exists", "print", "exit">>)
  /\ exit_code' = [exit_code EXCEPT ![p] = 0]
  /\ pc' = [pc EXCEPT ![p] = "done"]
  /\ UNCHANGED <<argv, stdin, program, cwd, environ, output_path, script_code,
                 tmp_cwd, original_cwd, ip, raised, dirs, files, files0, xvars>>

\* lines 87-98
Verify(p) ==
  /\ pc[p] = "verify"
  /\ IF ~exists(output_path[p], cwd[p], files)
     THEN /\ Emit(p, Failure("NoArtifactProduced"))
          /\ exit_code' = [exit_code EXCEPT ![p] = 1]
     ELSE /\ Emit(p, Ok)
          /\ exit_code' = [exit_code EXCEPT ![p] = 0]
  /\ Log(p, <<"exists", "print", "exit">>)
  /\ pc' = [pc EXCEPT ![p] = "done"]
  /\ UNCHANGED <<argv, stdin, program, cwd, environ, output_path, script_code,
                 tmp_cwd, original_cwd, ip, raised, dirs, files, files0, xvars>>

-----------------------------------------------------------------------------
(* Specifications of run_ppt_script *)

\* extract_ppt_images is not running
XIdle ==
  /\ xpc = "idle" /\ xin = <<>> /\ xtmp = NoDir /\ xdirs = {} /\ xpdfs = {}
  /\ xslides = 0 /\ xi = 0 /\ xout = <<>> /\ xraised = "none"
  /\ xexit = Running

InitRun(P, inp, stale) ==
  /\ pc = [p \in P |-> "start"]
  /\ argv = [p \in P |-> inp[p].argv]
  /\ stdin = [p \in P |-> inp[p].stdin]
  /\ program = [p \in P |-> inp[p].program]
  /\ cwd = [p \in P |-> Home]
  /\ environ = [p \in P |-> NoPath]
  /\ output_path = [p \in P |-> NoPath]
  /\ script_code = [p \in P |-> <<>>]
  /\ tmp_cwd = [p \in P |-> NoDir]
  /\ original_cwd = [p \in P |-> NoDir]
  /\ ip = [p \in P |-> 0]
  /\ raised = [p \in P |-> "none"]
  /\ stdout = [p \in P |-> <<>>]
  /\ exit_code = [p \in P |-> Running]
  /\ trace = [p \in P |-> <<>>]
  /\ dirs = {Home, Work}
  /\ files = stale
  /\ files0 = stale

Init ==
  /\ \E i \in {x \in Inputs : ValidInput(x)}, stale \in StaleSets :
       InitRun({1}, [p \in {1} |-> i], stale)
  /\ XIdle

Next ==
  \/ \E p \in Procs : Start(p)
  \/ \E p \in Procs : ReadScript(p)
  \/ \E p \in Procs : DetectJs(p)
  \/ \E p \in Procs : EnterSandbox(p)
  \/ \E p \in Procs : Compile(p)
  \/ \E p \in Procs : ScriptStep(p)
  \/ \E p \in Procs : ScriptEnd(p)
  \/ \E p \in Procs : Finally(p)
  \/ \E p \in Procs : Verify(p)

Spec == Init /\ [][Next]_vars

\* Two invocations running as separate processes over one file system.  The
\* inputs of each are drawn from a few scripts of every kind.
PairStdins == {<<>>, <<BadByte>>, <<REST>>, js_markers[6] \o <<REST>>}

PairPrograms ==
  {[ops |-> <<>>, end |-> "return"],
   [ops |-> <<"save">>, end |-> "return"],
   [ops |-> <<"chdir", "save">>, end |-> "exit0"],
   [ops |-> <<>>, end |-> "raise"],
   [ops |-> <<>>, end |-> "interrupt"],
   SyntaxErrorProgram}

PairInputs ==
  {i \in Inputs :
     ValidInput(i) /\ i.stdin \in PairStdins /\ i.program \in PairPrograms}

InitPair ==
  /\ \E inp \in [{1, 2} -> PairInputs], stale \in StaleSets :
       InitRun({1, 2}, inp, stale)
  /\ XIdle

SpecPair == InitPair /\ [][Next]_vars

-----------------------------------------------------------------------------
(* extract_ppt_images.main *)
(*                                                                         *)
(* xpc is the position in main(); xin the inputs (argument present, file   *)
(* present, LibreOffice found, pdf2image importable, the file's stem);     *)
(* xtmp the local tmpdir; xdirs the temporary directories that exist;      *)
(* xpdfs the PDF files in tmpdir; xslides the number of page images; xi    *)
(* the number of images encoded; xout the result lines; xraised the        *)
(* exception in flight; xexit the exit status.  The two external tools run *)
(* outside the script: each of their returns is a step of its own, which   *)
(* may never happen.                                                       *)

\* seconds
EXTract_TIMEOUT == 60

ExtractDir(n) == <<"dome_ppt_extract_", n>>
Stems == {"deck", "talk"}
PdfName(stem) == <<stem, ".pdf">>

XEmit(rec) == xout' = Append(xout, rec)

\* print(...); sys.exit(1) before the try statement
XDie(kind) ==
  /\ XEmit(Failure(kind))
  /\ xexit' = 1
  /\ xpc' = "done"
  /\ UNCHANGED xraised

\* print(...); sys.exit(1) inside the try statement: SystemExit is not an
\* Exception, so only the finally block sees it
XFail(kind) ==
  /\ XEmit(Failure(kind))
  /\ xraised' = "SystemExit"
  /\ xpc' = "finally"
  /\ UNCHANGED xexit

\* lines 47-71
XStart ==
  /\ xpc = "start"
  /\ IF ~xin.has_arg THEN XDie("MissingArgument")
     ELSE IF ~xin.pptx_exists THEN XDie("FileNotFound")
     ELSE IF ~xin.lo_exe THEN XDie("LibreOfficeNotFound")
     ELSE IF ~xin.pdf2image THEN XDie("Pdf2imageNotInstalled")
     ELSE /\ xpc' = "mkdtemp"
          /\ UNCHANGED <<xout, xraised, xexit>>
  /\ UNCHANGED <<xin, xtmp, xdirs, xpdfs, xslides, xi, rvars>>

\* lines 73-89: the temporary directory is made and LibreOffice is started
\* by subprocess.run with timeout=EXTract_TIMEOUT
XStartConverter ==
  /\ xpc = "mkdtemp"
  /\ \E n \in TmpNames :
       /\ ExtractDir(n) \notin xdirs
       /\ xtmp' = ExtractDir(n)
       /\ xdirs' = xdirs \cup {ExtractDir(n)}
  /\ xpc' = "converting"
  /\ UNCHANGED <<xin, xpdfs, xslides, xi, xout, xraised, xexit, rvars>>

\* LibreOffice returns within the timeout; lines 90-107
XConverterReturns ==
  /\ xpc = "converting"
  /\ \E returncode \in {0, 1}, err \in {"stderr", "stdout", "exit code"},
        written \in SUBSET {PdfName(st) : st \in Stems} :
       /\ xpdfs' = written
       /\ IF returncode # 0 THEN XFail(<<"ConvertFailed", err>>)
          ELSE IF PdfName(xin.stem) \notin written /\ written = {}
               THEN XFail(<<"NoPdfGenerated", "">>)
          ELSE /\ xpc' = "rasterizing"
               /\ UNCHANGED <<xout, xraised>>
  /\ UNCHANGED <<xin, xtmp, xdirs, xslides, xi, xexit, rvars>>

\* LibreOffice has not returned after EXTract_TIMEOUT seconds:
\* subprocess.run kills it and raises TimeoutExpired; lines 134-139
XConverterTimeout ==
  /\ xpc = "converting"
  /\ XFail(<<"Timeout", "">>)
  /\ UNCHANGED <<xin, xtmp, xdirs, xpdfs, xslides, xi, xexit, rvars>>

\* line 111, convert_from_path(pdf_path, dpi=150), returns the page images
XRasterizerReturns ==
  /\ xpc = "rasterizing"
  /\ \E n \in 0..MaxSlides : xslides' = n
  /\ xpc' = "encode"
  /\ UNCHANGED <<xin, xtmp, xdirs, xpdfs, xi, xout, xraised, xexit, rvars>>

\* line 111 raises; lines 112-122
XRasterizerRaises ==
  /\ xpc = "rasterizing"
  /\ \E hint \in {"poppler", "message"} : XFail(<<"RasterizeFailed", hint>>)
  /\ UNCHANGED <<xin, xtmp, xdirs, xpdfs, xslides, xi, xexit, rvars>>

\* lines 126-131, one image; img.save may raise, which line 140 catches
XEncode ==
  /\ xpc = "encode"
  /\ xi < xslides
  /\ \/ /\ xi' = xi + 1
        /\ UNCHANGED <<xpc, xout, xraised>>
     \/ /\ XFail(<<"Exception", "">>)
        /\ UNCHANGED xi
  /\ UNCHANGED <<xin, xtmp, xdirs, xpdfs, xslides, xexit, rvars>>

\* line 133
XReport ==
  /\ xpc = "encode"
  /\ xi = xslides
  /\ XEmit([success |-> TRUE, slides |-> xi])
  /\ xpc' = "finally"
  /\ UNCHANGED <<xin, xtmp, xdirs, xpdfs, xslides, xi, xraised, xexit, rvars>>

\* lines 143-144, then the process ends
XFinally ==
  /\ xpc = "finally"
  /\ xdirs' = xdirs \ {xtmp}
  /\ xpdfs' = {}
  /\ xexit' = IF xraised = "SystemExit" THEN 1 ELSE 0
  /\ xpc' = "done"
  /\ UNCHANGED <<xin, xtmp, xslides, xi, xout, xraised, rvars>>

XInputs ==
  [has_arg : BOOLEAN, pptx_exists : BOOLEAN, lo_exe : BOOLEAN,
   pdf2image : BOOLEAN, stem : Stems]

\* directories an earlier, killed run may have left behind
XLeftovers == {{}, {ExtractDir(1)}}

InitExtract ==
  /\ xpc = "start" /\ xin \in XInputs /\ xtmp = NoDir /\ xdirs \in XLeftovers
  /\ xpdfs = {} /\ xslides = 0 /\ xi = 0 /\ xout = <<>> /\ xraised = "none"
  /\ xexit = Running
  /\ InitRun({}, <<>>, {})

NextExtract ==
  \/ XStart
  \/ XStartConverter
  \/ XConverterReturns
  \/ XConverterTimeout
  \/ XRasterizerReturns
  \/ XRasterizerRaises
  \/ XEncode
  \/ XReport
  \/ XFinally

\* The script's own steps are taken when they can be, and the timeout of
\* subprocess.run expires when the converter has not returned.  Nothing
\* makes an external tool return.
SpecExtract ==
  /\ InitExtract
  /\ [][NextExtract]_vars
  /\ WF_vars(XStart) /\ WF_vars(XStartConverter) /\ WF_vars(XConverterTimeout)
  /\ WF_vars(XEncode) /\ WF_vars(XReport) /\ WF_vars(XFinally)

-----------------------------------------------------------------------------
(* Vocabulary of the properties *)

Done(p) == pc[p] = "done"

Count(seq, e) == Cardinality({i \in DOMAIN seq : seq[i] = e})

Occurs(seq, e) == \E i \in DOMAIN seq : seq[i] = e

Before(seq, e, i) == \E j \in 1..(i - 1) : seq[j] = e

\* the text is blank: every character is whitespace
AllSpace(text) == \A j \in DOMAIN text : IsSpace(text[j])

\* after k leading whitespace characters the text continues with marker m
MarkerAt(text, k, m) ==
  /\ \A j \in 1..k : IsSpace(text[j])
  /\ k + Len(m) <= Len(text)
  /\ \A j \in 1..Len(m) : text[k + j] = m[j]

LeadingMarker(text) ==
  \E k \in 0..Len(text), i \in DOMAIN js_markers : MarkerAt(text, k, js_markers[i])

\* where the artifact is expected: the argument, taken relative to the
\* directory the invocation was started in
ArtifactPath(p) ==
  IF argv[p][1].dir = Dot THEN Path(Home, argv[p][1].name) ELSE argv[p][1]

\* the script compiles, saves the presentation and ends normally or with exit(0)
WellFormedSaving(p) ==
  /\ Len(argv[p]) >= 1
  /\ Decodable(stdin[p])
  /\ ~AllSpace(stdin[p])
  /\ program[p].end \in {"return", "exit0"}
  /\ Occurs(program[p].ops, "save")

\* the uncaught-error class: an error that is neither SystemExit nor an
\* Exception left main()
Crashed(p) == Done(p) /\ raised[p] = "KeyboardInterrupt"

-----------------------------------------------------------------------------
(* C1 *)

\* C1 as stated: every invocation that has terminated has written exactly one
\* result line.
C1_ExactlyOneLineAlways ==
  \A p \in Procs : Done(p) => Len(stdout[p]) = 1

\* C1, amended: no invocation ever writes two result lines, and every
\* invocation that terminates has written exactly one, unless an error that
\* is neither SystemExit nor an Exception escaped the script (then none).
C1_ExactlyOneLine ==
  \A p \in Procs :
    /\ Len(stdout[p]) <= 1
    /\ Done(p) => (Len(stdout[p]) = 1 <=> ~Crashed(p))

C1_Witness ==
  \E p \in Procs :
    /\ Done(p)
    /\ Occurs(trace[p], "exists")
    /\ stdout[p] = <<Failure("NoArtifactProduced")>>

-----------------------------------------------------------------------------
(* C2 *)

\* C2: when an invocation has terminated, its exit status is 0 exactly when
\* the record it wrote has success true, and 1 when the record reports a
\* failure; the status never disagrees with the record.
C2_StatusMatchesRecord ==
  \A p \in Procs :
    Done(p) =>
      /\ exit_code[p] # Running
      /\ stdout[p] # <<>> => exit_code[p] \in {0, 1}
      /\ exit_code[p] = 0 <=> (stdout[p] # <<>> /\ stdout[p][Len(stdout[p])].success)
      /\ \A i \in DOMAIN stdout[p] : ~stdout[p][i].success => exit_code[p] = 1

C2_Witness ==
  \E p \in Procs :
    /\ Done(p)
    /\ stdout[p] = <<Failure("RuntimeFailure")>>
    /\ exit_code[p] = 1

-----------------------------------------------------------------------------
(* C3 *)

\* C3: once the temporary directory has been created, an invocation that has
\* ended (on any path) has its working directory back at the value before
\* execution, has restored it once and removed the temporary directory once,
\* and the temporary directory and everything in it no longer exists.
C3_TeardownOnEveryPath ==
  \A p \in Procs :
    Done(p) /\ Occurs(trace[p], "mkdtemp") =>
      /\ cwd[p] = Home
      /\ Count(trace[p], "restore") = 1
      /\ Count(trace[p], "rmtree") = 1
      /\ tmp_cwd[p] \notin dirs
      /\ \A f \in files : f.dir # tmp_cwd[p]

C3_Witness ==
  \E p \in Procs :
    /\ Crashed(p)
    /\ Occurs(program[p].ops, "chdir")
    /\ tmp_cwd[p] # NoDir

-----------------------------------------------------------------------------
(* C4 *)

-----------------------------------------------------------------------------
(* C5 *)

\* C5 as stated: every well-formed script that saves to the exposed output
\* path is reported as success with the artifact at that path, whatever its
\* leading text and whatever working-directory changes it makes.
C5_WellFormedAlwaysSucceeds ==
  \A p \in Procs :
    Done(p) /\ WellFormedSaving(p) =>
      /\ stdout[p] = <<Ok>>
      /\ exit_code[p] = 0
      /\ ArtifactPath(p) \in files

\* C5, amended: every well-formed script that saves to the exposed output
\* path and whose left-trimmed text does not start with a foreign-language
\* marker is reported as success with the artifact at that path, whatever
\* working-directory changes it makes.
C5_WellFormedSucceeds ==
  \A p \in Procs :
    Done(p) /\ WellFormedSaving(p) /\ ~LeadingMarker(stdin[p]) =>
      /\ stdout[p] = <<Ok>>
      /\ exit_code[p] = 0
      /\ ArtifactPath(p) \in files

C5_Witness ==
  \E p \in Procs :
    /\ Done(p)
    /\ WellFormedSaving(p)
    /\ ~LeadingMarker(stdin[p])
    /\ program[p].ops = <<"chdir", "save">>
    /\ argv[p][1].dir = Dot
    /\ files0 = {}
    /\ stdout[p] = <<Ok>>

-----------------------------------------------------------------------------
(* C6 *)

\* C6: a script that executes cleanly and never writes the output file is
\* reported as NoArtifactProduced with exit status 1, whatever existed at the
\* output path before the invocation started.
C6_NoSaveIsNoArtifact ==
  \A p \in Procs :
    /\ Done(p)
    /\ Occurs(trace[p], "exec")
    /\ program[p].end \in {"return", "exit0"}
    /\ ~Occurs(program[p].ops, "save")
    => /\ stdout[p] = <<Failure("NoArtifactProduced")>>
       /\ exit_code[p] = 1

-----------------------------------------------------------------------------
(* C7 *)

\* C7: when the input is blank, or starts (after leading whitespace) with a
\* foreign-language marker, no temporary directory is ever created, the
\* working directory never changes, the script is never compiled or executed,
\* and the invocation ends with the EmptyInput or WrongLanguage report.
C7_RejectedBeforeIsolation ==
  \A p \in Procs :
    Len(argv[p]) >= 1 /\ Decodable(stdin[p])
    /\ (AllSpace(stdin[p]) \/ LeadingMarker(stdin[p])) =>
      /\ ~Occurs(trace[p], "mkdtemp") /\ ~Occurs(trace[p], "chdir")
      /\ ~Occurs(trace[p], "compile") /\ ~Occurs(trace[p], "exec")
      /\ tmp_cwd[p] = NoDir /\ cwd[p] = Home /\ ip[p] = 0
      /\ pc[p] \in {"start", "read", "detect", "done"}
      /\ Done(p) =>
           stdout[p] = <<Failure(IF AllSpace(stdin[p]) THEN "EmptyInput"
                                                       ELSE "WrongLanguage")>>

C7_Witness ==
  \E p \in Procs :
    /\ Done(p)
    /\ stdin[p] # lstrip(stdin[p])
    /\ stdout[p] = <<Failure("WrongLanguage")>>

-----------------------------------------------------------------------------
(* C8 *)

\* C8: the execute step counts as clean (the artifact check follows) only
\* when the script completes normally or exits early with no error status;
\* every other error raised through the exception channel, a compile error
\* included, is reported as a runtime failure with exit status 1 and the
\* artifact check is not performed.
C8_OnlyCleanExitIsClean ==
  \A p \in Procs :
    Done(p) /\ Occurs(trace[p], "compile") /\ program[p].end # "interrupt" =>
      IF program[p].end \in {"return", "exit0"}
      THEN Occurs(trace[p], "exists")
      ELSE /\ stdout[p] = <<Failure("RuntimeFailure")>>
           /\ exit_code[p] = 1
           /\ ~Occurs(trace[p], "exists")

-----------------------------------------------------------------------------
(* C9 *)

InSandbox(p) == pc[p] \in {"compile", "exec", "finally"}

\* the script of q, if it runs, saves a file at the output path of p
SavesAtOutputOf(q, p) ==
  /\ Len(argv[q]) >= 1 /\ Len(argv[p]) >= 1
  /\ ArtifactPath(q) = ArtifactPath(p)
  /\ Occurs(program[q].ops, "save")

\* the record an invocation writes, from its own inputs and the files that
\* existed before it started
OwnRecord(p) ==
  IF Len(argv[p]) < 1 THEN <<Failure("MissingArgument")>>
  ELSE IF ~Decodable(stdin[p]) THEN <<Failure("StdinReadFailed")>>
  ELSE IF AllSpace(stdin[p]) THEN <<Failure("EmptyInput")>>
  ELSE IF LeadingMarker(stdin[p]) THEN <<Failure("WrongLanguage")>>
  ELSE IF program[p].end \in {"syntax", "raise"} THEN <<Failure("RuntimeFailure")>>
  ELSE IF program[p].end = "interrupt" THEN <<>>
  ELSE IF ArtifactPath(p) \in files0 \/ Occurs(program[p].ops, "save") THEN <<Ok>>
  ELSE <<Failure("NoArtifactProduced")>>

\* while an invocation is inside its sandbox its temporary directory exists,
\* is its working directory unless its own script changed it, and is no
\* other sandboxed invocation's temporary directory
OwnTmpDir(p) ==
  InSandbox(p) =>
    /\ tmp_cwd[p] \in dirs
    /\ cwd[p] \in {tmp_cwd[p], Work}
    /\ \A q \in Procs \ {p} : InSandbox(q) => tmp_cwd[q] # tmp_cwd[p]

-----------------------------------------------------------------------------
(* C10 *)

\* C10: both external tools run under a bounded timeout, so an invocation of
\* extract_ppt_images eventually terminates, even when an external tool never
\* returns, and then a result record has been written and the temporary
\* directory is removed.
C10_EventuallyTerminates ==
  <>(xpc = "done" /\ Len(xout) = 1 /\ xtmp \notin xdirs)

=============================================================================
